---- MODULE Spec2Model ----
(***************************************************************************)
(* A model of src/juce_audio_devices.rs: the sample buffer views, the      *)
(* AudioDeviceSetup builder, the AudioDeviceManager with its callback      *)
(* registrations, the two AudioIODevice realisations, the device-type and  *)
(* device FFI shims, and SystemAudioVolume.                                *)
(*                                                                         *)
(* The native engine (the juce:: bridge) is not part of the Rust file; the *)
(* operators named Native... state what the specification says of it.      *)
(***************************************************************************)
EXTENDS Integers, Sequences, FiniteSets, TLC

(***************************************************************************)
(* Integer widths.  Rust's `as` casts between usize and i32 truncate and   *)
(* sign-extend.  The widths are scaled down (i32 -> IntBits bits, usize -> *)
(* UsizeBits bits) so that the values stay inside TLC's integers; the      *)
(* casts behave as in the source for any IntBits < UsizeBits.              *)
(***************************************************************************)
IntBits == 4
UsizeBits == 6

Pow2(n) == 2 ^ n

UsizeMax == Pow2(UsizeBits) - 1

\* `x as i32` for x : usize -- keep the low IntBits bits, two's complement.
AsI32(x) ==
    LET m == x % Pow2(IntBits)
    IN  IF m >= Pow2(IntBits - 1) THEN m - Pow2(IntBits) ELSE m

\* `x as usize` for x : i32 -- sign-extend to UsizeBits bits.
AsUsize(x) == IF x < 0 THEN x + Pow2(UsizeBits) ELSE x

(***************************************************************************)
(* Bounds of the model.                                                    *)
(***************************************************************************)
MaxChannels == 3
MaxSamples == 2
MaxCallbacks == 2
MaxBlocks == 2
MaxActive == 2
MaxBoxes == 2

VARIABLES
    \* ---- sample buffer views
    buffer,        \* the native AudioSampleBuffer: [numChannels, numSamples]
    access,        \* the last indexing operation on a view and its outcome
    \* ---- AudioDeviceSetup builder
    setup,         \* the native AudioDeviceSetup held by the builder value
    built,         \* the last builder call: [op, arg, before]
    \* ---- AudioDeviceManager and its callbacks
    mgr,           \* the native manager: [initialised, running, current, activeIn, activeOut]
    reg,           \* per callback: "new", "registered" (handle alive), "dropped"
    dispatch,      \* the native real-time dispatch list (a set of callbacks)
    cbLife,        \* per callback: "NotStarted", "Started", "Stopped"
    starts,        \* per callback: about_to_start calls since its last stopped()
    startArgs,     \* per callback: what its last about_to_start carried
    blocks,        \* per callback: process_block invocations begun
    rt,            \* the real-time thread: 0 idle, or the callback it is inside
    call,          \* the last configuration call: [op, result, valid, kept];
                   \* kept: audio_device_setup() answered after it as before it
    \* ---- AudioIODevice realisations and the device FFI
    ptrDev,        \* the native device behind the borrowed *mut pointer
    uniqDev,       \* the native device behind the owned UniquePtr
    ptrRes,        \* the borrowed device's last answer: [op, value, native]
    uniqRes,       \* the owned device's last answer
    appOpen,       \* ffi device_open on an application device: [outcome, text, returned]
    \* ---- AudioIODeviceType and the device-type FFI
    typePtr,       \* the native device type behind *mut: "null" or "live"
    made,          \* the last create_device / destroy_device call
    boxes,         \* raw Box<BoxedAudioIODevice> pointers handed to the engine
    \* ---- SystemAudioVolume
    gain,          \* the native system gain
    muted,         \* the native mute flag
    vol            \* the last SystemAudioVolume call: [op, arg, got]

bufVars == <<buffer, access>>
cfgVars == <<setup, built>>
mgrVars == <<mgr, reg, dispatch, cbLife, starts, startArgs, blocks, rt, call>>
devVars == <<ptrDev, uniqDev, ptrRes, uniqRes, appOpen>>
typVars == <<typePtr, made, boxes>>
volVars == <<gain, muted, vol>>
vars == <<bufVars, cfgVars, mgrVars, devVars, typVars, volVars>>

(***************************************************************************)
(* The values each part of the state has while a specification leaves it   *)
(* alone.                                                                  *)
(***************************************************************************)
CB == 1..MaxCallbacks

NoAccess == [view |-> "none", op |-> "none", channel |-> 0,
             outcome |-> "none", len |-> 0, native |-> "none", arg |-> 0]
EmptySetup == [output |-> "", input |-> "", rate |-> 0, size |-> 0]
NoArgs == [input_channels |-> 0, output_channels |-> 0,
           sample_rate |-> 0, buffer_size |-> 0]
NoCall == [op |-> "none", result |-> "none", valid |-> TRUE, kept |-> TRUE]
NullDevice == [live |-> FALSE, name |-> "", typeName |-> "", rate |-> 0,
               size |-> 0, rates |-> <<>>, sizes |-> <<>>, open |-> FALSE]
NoAnswer == [op |-> "none", value |-> "none", native |-> FALSE,
             arg |-> <<>>, before |-> <<>>]
NoOpen == [outcome |-> "none", text |-> "", returned |-> ""]
NoMade == [op |-> "none", names |-> <<"", "">>, result |-> "none", raw |-> 0,
           before |-> {}]
Zero == [nan |-> FALSE, v |-> 0]
NoVol == [op |-> "none", set |-> FALSE, arg |-> Zero, got |-> Zero]

BufIdle ==
    /\ buffer = [numChannels |-> 0, numSamples |-> 0]
    /\ access = NoAccess

CfgIdle ==
    /\ setup = EmptySetup
    /\ built = [op |-> "none", arg |-> 0, before |-> EmptySetup]

MgrIdle ==
    /\ mgr = [initialised |-> FALSE, running |-> FALSE, current |-> EmptySetup,
              activeIn |-> 0, activeOut |-> 0]
    /\ reg = [c \in CB |-> "new"]
    /\ dispatch = {}
    /\ cbLife = [c \in CB |-> "NotStarted"]
    /\ starts = [c \in CB |-> 0]
    /\ startArgs = [c \in CB |-> NoArgs]
    /\ blocks = [c \in CB |-> 0]
    /\ rt = 0
    /\ call = NoCall

DevIdle ==
    /\ ptrDev = NullDevice
    /\ uniqDev = NullDevice
    /\ ptrRes = NoAnswer
    /\ uniqRes = NoAnswer
    /\ appOpen = NoOpen

TypIdle ==
    /\ typePtr = "null"
    /\ made = NoMade
    /\ boxes = {}

VolIdle ==
    /\ gain = Zero
    /\ muted = FALSE
    /\ vol = NoVol

(***************************************************************************)
(* Sample buffer views (InputAudioSampleBuffer, OutputAudioSampleBuffer).  *)
(***************************************************************************)
\* InputAudioSampleBuffer::channels / samples
InputChannels(b) == AsUsize(b.numChannels)
InputSamples(b) == AsUsize(b.numSamples)

\* OutputAudioSampleBuffer::channels / samples
OutputChannels(b) == AsUsize(b.numChannels)
OutputSamples(b) == AsUsize(b.numSamples)

\* juce::AudioSampleBuffer::get_read_pointer / get_write_pointer: a pointer to
\* the channel's samples for 0 <= ch < numChannels; outside that range the
\* native call reads past the channel table, which is undefined: the caller
\* may get any pointer ("wild") or the process may fault.
NativeChannelPointer(b, ch) ==
    IF 0 <= ch /\ ch < b.numChannels THEN {"channel"} ELSE {"wild", "fault"}

\* The slice the view hands out once it holds a pointer.
SliceOutcomes(view, op, channel, b, which, len) ==
    { [view |-> view, op |-> op, channel |-> channel,
       outcome |-> (IF p = "channel" THEN "slice"
                    ELSE IF p = "wild" THEN "wild_slice" ELSE "fault"),
       len |-> (IF p = "fault" THEN 0 ELSE len),
       native |-> which, arg |-> AsI32(channel)]
      : p \in NativeChannelPointer(b, AsI32(channel)) }

PanicOutcome(view, op, channel) ==
    [view |-> view, op |-> op, channel |-> channel, outcome |-> "panic",
     len |-> 0, native |-> "none", arg |-> 0]

\* The bounds check each index implementation makes: `channels() < channel`.
ChannelRejected(channels, channel) == channels < channel

\* impl Index<usize> for InputAudioSampleBuffer
InputIndex(b, channel) ==
    IF ChannelRejected(InputChannels(b), channel)
    THEN {PanicOutcome("input", "index", channel)}
    ELSE SliceOutcomes("input", "index", channel, b, "read", InputSamples(b))

\* impl Index<usize> for OutputAudioSampleBuffer
OutputIndex(b, channel) ==
    IF ChannelRejected(OutputChannels(b), channel)
    THEN {PanicOutcome("output", "index", channel)}
    ELSE SliceOutcomes("output", "index", channel, b, "read", OutputSamples(b))

\* impl IndexMut<usize> for OutputAudioSampleBuffer
OutputIndexMut(b, channel) ==
    IF ChannelRejected(OutputChannels(b), channel)
    THEN {PanicOutcome("output", "index_mut", channel)}
    ELSE SliceOutcomes("output", "index_mut", channel, b, "write", OutputSamples(b))

Buffers == [numChannels : 0..MaxChannels, numSamples : 0..MaxSamples]
ChannelArgs == 0..(MaxChannels + 2)

ReadInput ==
    /\ \E c \in ChannelArgs : \E r \in InputIndex(buffer, c) : access' = r
    /\ UNCHANGED <<buffer, cfgVars, mgrVars, devVars, typVars, volVars>>

ReadOutput ==
    /\ \E c \in ChannelArgs : \E r \in OutputIndex(buffer, c) : access' = r
    /\ UNCHANGED <<buffer, cfgVars, mgrVars, devVars, typVars, volVars>>

WriteOutput ==
    /\ \E c \in ChannelArgs : \E r \in OutputIndexMut(buffer, c) : access' = r
    /\ UNCHANGED <<buffer, cfgVars, mgrVars, devVars, typVars, volVars>>

\* The engine hands the callback a fresh pair of buffers for the next period.
NextPeriod ==
    /\ \E b \in Buffers : buffer' = b
    /\ access' = NoAccess
    /\ UNCHANGED <<cfgVars, mgrVars, devVars, typVars, volVars>>

InitBuffer ==
    /\ buffer \in Buffers
    /\ access = NoAccess
    /\ CfgIdle /\ MgrIdle /\ DevIdle /\ TypIdle /\ VolIdle

NextBuffer == ReadInput \/ ReadOutput \/ WriteOutput \/ NextPeriod

SpecBuffer == InitBuffer /\ [][NextBuffer]_vars

\* C1: indexing a view with channel < channels() yields a slice of exactly
\* samples() floats; with channel >= channels() it panics and the buffer's
\* read/write pointer is never asked for.
C1_IndexBounds ==
    access.op # "none" =>
        IF access.channel < AsUsize(buffer.numChannels)
        THEN access.outcome = "slice" /\ access.len = AsUsize(buffer.numSamples)
        ELSE access.outcome = "panic" /\ access.native = "none"

(***************************************************************************)
(* AudioDeviceSetup: the builder over the native setup record.  The native *)
(* record keeps the two names, the rate (a double) and the buffer size (an *)
(* int); its accessors store and return the fields as they are.            *)
(***************************************************************************)
NameArgs == {"", "mock", "nope"}
RateArgs == {0, 44100, 48000}
SizeArgs == 0..UsizeMax

\* juce::create_audio_device_setup
NativeCreateAudioDeviceSetup == EmptySetup

\* AudioDeviceSetup::output_device_name / with_output_device_name
output_device_name(s) == s.output
with_output_device_name(s, name) == [s EXCEPT !.output = name]

\* AudioDeviceSetup::input_device_name / with_input_device_name
input_device_name(s) == s.input
with_input_device_name(s, name) == [s EXCEPT !.input = name]

\* AudioDeviceSetup::sample_rate / with_sample_rate
sample_rate(s) == s.rate
with_sample_rate(s, rate) == [s EXCEPT !.rate = rate]

\* AudioDeviceSetup::buffer_size: `self.0.buffer_size() as usize`
buffer_size(s) == AsUsize(s.size)
\* AudioDeviceSetup::with_buffer_size: `set_buffer_size(buffer_size as i32)`
with_buffer_size(s, size) == [s EXCEPT !.size = AsI32(size)]

WithOutputDeviceName ==
    /\ \E v \in NameArgs :
          /\ setup' = with_output_device_name(setup, v)
          /\ built' = [op |-> "with_output_device_name", arg |-> v, before |-> setup]
    /\ UNCHANGED <<bufVars, mgrVars, devVars, typVars, volVars>>

WithInputDeviceName ==
    /\ \E v \in NameArgs :
          /\ setup' = with_input_device_name(setup, v)
          /\ built' = [op |-> "with_input_device_name", arg |-> v, before |-> setup]
    /\ UNCHANGED <<bufVars, mgrVars, devVars, typVars, volVars>>

WithSampleRate ==
    /\ \E v \in RateArgs :
          /\ setup' = with_sample_rate(setup, v)
          /\ built' = [op |-> "with_sample_rate", arg |-> v, before |-> setup]
    /\ UNCHANGED <<bufVars, mgrVars, devVars, typVars, volVars>>

WithBufferSize ==
    /\ \E v \in SizeArgs :
          /\ setup' = with_buffer_size(setup, v)
          /\ built' = [op |-> "with_buffer_size", arg |-> v, before |-> setup]
    /\ UNCHANGED <<bufVars, mgrVars, devVars, typVars, volVars>>

InitConfig ==
    /\ setup = NativeCreateAudioDeviceSetup
    /\ built = [op |-> "none", arg |-> 0, before |-> setup]
    /\ BufIdle /\ MgrIdle /\ DevIdle /\ TypIdle /\ VolIdle

NextConfig ==
    WithOutputDeviceName \/ WithInputDeviceName \/ WithSampleRate \/ WithBufferSize

SpecConfig == InitConfig /\ [][NextConfig]_vars

\* C6: every builder setter followed by its getter returns the value that was
\* set, for every value (buffer sizes included), and leaves the other three
\* fields as they were.
C6_BuilderRoundTrip ==
    /\ built.op = "with_output_device_name" =>
          /\ output_device_name(setup) = built.arg
          /\ input_device_name(setup) = input_device_name(built.before)
          /\ sample_rate(setup) = sample_rate(built.before)
          /\ buffer_size(setup) = buffer_size(built.before)
    /\ built.op = "with_input_device_name" =>
          /\ input_device_name(setup) = built.arg
          /\ output_device_name(setup) = output_device_name(built.before)
          /\ sample_rate(setup) = sample_rate(built.before)
          /\ buffer_size(setup) = buffer_size(built.before)
    /\ built.op = "with_sample_rate" =>
          /\ sample_rate(setup) = built.arg
          /\ output_device_name(setup) = output_device_name(built.before)
          /\ input_device_name(setup) = input_device_name(built.before)
          /\ buffer_size(setup) = buffer_size(built.before)
    /\ built.op = "with_buffer_size" =>
          /\ buffer_size(setup) = built.arg
          /\ output_device_name(setup) = output_device_name(built.before)
          /\ input_device_name(setup) = input_device_name(built.before)
          /\ sample_rate(setup) = sample_rate(built.before)

(***************************************************************************)
(* AudioDeviceManager, the callback registrations and the real-time        *)
(* thread.                                                                 *)
(*                                                                         *)
(* The native manager opens the device named by a setup when the names are *)
(* known and the rate and size are among those the device offers.  While   *)
(* the device runs, the engine's real-time thread calls process_block on   *)
(* the callbacks of its dispatch list; it calls about_to_start when the    *)
(* device starts (or when a callback joins a running device) and stopped   *)
(* when the device stops or the callback leaves the list.                  *)
(***************************************************************************)
KnownDevices == {"mock"}
ValidRates == {44100, 48000}
ValidSizes == {2, 4}
ChannelCounts == 1..MaxActive

DefaultSetup == [output |-> "mock", input |-> "mock", rate |-> 44100, size |-> 2]

SetupValid(s) ==
    /\ s.output \in KnownDevices
    /\ s.input \in KnownDevices
    /\ s.rate \in ValidRates
    /\ s.size \in ValidSizes

\* The setups an application hands to set_audio_device_setup, each built with
\* the builder.
SetupArgs ==
    { with_buffer_size(with_sample_rate(with_input_device_name(
          with_output_device_name(NativeCreateAudioDeviceSetup, o), i), r), z)
      : o \in {"mock", "nope"}, i \in {"mock", "nope"},
        r \in {44100, 48000, 1}, z \in {2, 3, 4} }

\* juce::AudioDeviceManager::initialise_with_default_devices
NativeInitialise(m, inCh, outCh, found) ==
    IF found
    THEN [mgr |-> [initialised |-> TRUE, running |-> TRUE, current |-> DefaultSetup,
                   activeIn |-> inCh, activeOut |-> outCh],
          error |-> ""]
    ELSE [mgr |-> m, error |-> "no audio device"]

\* juce::AudioDeviceManager::set_audio_device_setup: a rejected setup leaves
\* the active configuration as it was.
NativeSetAudioDeviceSetup(m, s) ==
    IF SetupValid(s)
    THEN [mgr |-> [m EXCEPT !.current = s, !.running = TRUE], error |-> ""]
    ELSE [mgr |-> m, error |-> "cannot open device"]

\* juce::AudioDeviceManager::get_audio_device_setup
NativeGetAudioDeviceSetup(m) == m.current

\* The device the engine passes to the callbacks.
NativeCurrentDevice(m) ==
    [rate |-> m.current.rate, size |-> m.current.size,
     activeIn |-> m.activeIn, activeOut |-> m.activeOut]

\* AudioDeviceManager::audio_device_setup
audio_device_setup(m) == NativeGetAudioDeviceSetup(m)

\* AudioDeviceManager::set_audio_device_setup returns (): what the engine says
\* of the setup does not reach the caller.
set_audio_device_setup_result(error) == "unit"

\* AudioDeviceManager::initialise returns the engine's Result.
initialise_result(error) == IF error = "" THEN "ok" ELSE "err"

\* add_audio_callback returns AudioCallbackHandle<'_>, which borrows the
\* manager mutably: while a handle is alive no other method of the manager
\* can be called.
HandleLive == \E c \in CB : reg[c] = "registered"

\* ffi::audio_io_device_callback::about_to_start: what the callback receives.
FfiAboutToStartSwapped(dev) ==
    [input_channels |-> dev.activeOut, output_channels |-> dev.activeIn,
     sample_rate |-> dev.rate, buffer_size |-> AsUsize(dev.size)]
FfiAboutToStart(dev) ==
    [input_channels |-> dev.activeIn, output_channels |-> dev.activeOut,
     sample_rate |-> dev.rate, buffer_size |-> AsUsize(dev.size)]

\* The engine starts the callbacks of S on device dev, stops those of S.
StartCallbacks(S, dev) ==
    /\ cbLife' = [c \in CB |-> IF c \in S THEN "Started" ELSE cbLife[c]]
    /\ starts' = [c \in CB |-> IF c \in S THEN starts[c] + 1 ELSE starts[c]]
    /\ startArgs' = [c \in CB |-> IF c \in S THEN FfiAboutToStart(dev) ELSE startArgs[c]]

\* ffi::audio_io_device_callback::stopped, for the started callbacks of S.
StopCallbacks(S) ==
    LET T == {c \in S : cbLife[c] = "Started"}
    IN  /\ cbLife' = [c \in CB |-> IF c \in T THEN "Stopped" ELSE cbLife[c]]
        /\ starts' = [c \in CB |-> IF c \in T THEN 0 ELSE starts[c]]
        /\ startArgs' = [c \in CB |-> IF c \in T THEN NoArgs ELSE startArgs[c]]

\* A device that was running is stopped and started again: each started
\* callback of S gets stopped() and then about_to_start on the new device.
RestartCallbacks(S, dev) ==
    /\ cbLife' = [c \in CB |-> IF c \in S THEN "Started" ELSE cbLife[c]]
    /\ starts' = [c \in CB |-> IF c \in S THEN 1 ELSE starts[c]]
    /\ startArgs' = [c \in CB |-> IF c \in S THEN FfiAboutToStart(dev) ELSE startArgs[c]]

\* AudioDeviceManager::initialise
Initialise ==
    /\ ~HandleLive
    /\ rt = 0
    /\ \E inCh \in ChannelCounts, outCh \in ChannelCounts, found \in BOOLEAN :
         LET r == NativeInitialise(mgr, AsI32(inCh), AsI32(outCh), found)
         IN  /\ mgr' = r.mgr
             /\ call' = [op |-> "initialise", result |-> initialise_result(r.error),
                         valid |-> found,
                         kept |-> audio_device_setup(r.mgr) = audio_device_setup(mgr)]
             /\ IF found
                THEN RestartCallbacks(dispatch, NativeCurrentDevice(r.mgr))
                ELSE UNCHANGED <<cbLife, starts, startArgs>>
    /\ UNCHANGED <<reg, dispatch, blocks, rt>>
    /\ UNCHANGED <<bufVars, cfgVars, devVars, typVars, volVars>>

\* AudioDeviceManager::set_audio_device_setup
SetAudioDeviceSetup ==
    /\ ~HandleLive
    /\ rt = 0
    /\ mgr.initialised
    /\ \E s \in SetupArgs :
         LET r == NativeSetAudioDeviceSetup(mgr, s)
         IN  /\ mgr' = r.mgr
             /\ call' = [op |-> "set_audio_device_setup",
                         result |-> set_audio_device_setup_result(r.error),
                         valid |-> SetupValid(s),
                         kept |-> audio_device_setup(r.mgr) = audio_device_setup(mgr)]
             /\ IF r.error = ""
                THEN RestartCallbacks(dispatch, NativeCurrentDevice(r.mgr))
                ELSE UNCHANGED <<cbLife, starts, startArgs>>
    /\ UNCHANGED <<reg, dispatch, blocks, rt>>
    /\ UNCHANGED <<bufVars, cfgVars, devVars, typVars, volVars>>

\* juce::AudioDeviceManager::add_audio_callback: the callback joins the
\* dispatch list; on a running device it is started first.
NativeAddAudioCallback(c) ==
    /\ dispatch' = dispatch \cup {c}
    /\ IF mgr.running
       THEN StartCallbacks({c}, NativeCurrentDevice(mgr))
       ELSE UNCHANGED <<cbLife, starts, startArgs>>

\* AudioDeviceManager::add_audio_callback
\* Callback instances are numbered in the order they are registered.
AddAudioCallback ==
    /\ ~HandleLive
    /\ \E c \in CB :
         /\ reg[c] = "new"
         /\ \A b \in CB : b < c => reg[b] # "new"
         /\ reg' = [reg EXCEPT ![c] = "registered"]
         /\ NativeAddAudioCallback(c)
    /\ UNCHANGED <<mgr, blocks, rt, call>>
    /\ UNCHANGED <<bufVars, cfgVars, devVars, typVars, volVars>>

\* The destructor of juce::AudioCallbackHandle: the callback leaves the
\* dispatch list and, if it was started, gets stopped().  An invocation of
\* process_block already under way may still be completing.
NativeRemoveAudioCallback(c) ==
    /\ dispatch' = dispatch \ {c}
    /\ StopCallbacks({c})

\* Dropping the AudioCallbackHandle drops the UniquePtr it wraps.
HandleLeaked(c) == UNCHANGED <<dispatch, cbLife, starts, startArgs>>
HandleDropped(c) == NativeRemoveAudioCallback(c)

DropHandle ==
    /\ \E c \in CB :
         /\ reg[c] = "registered"
         /\ reg' = [reg EXCEPT ![c] = "dropped"]
         /\ HandleDropped(c)
    /\ UNCHANGED <<mgr, blocks, rt, call>>
    /\ UNCHANGED <<bufVars, cfgVars, devVars, typVars, volVars>>

\* The engine stops the device on its own (the hardware went away).
NativeDeviceStop ==
    /\ mgr.running
    /\ rt = 0
    /\ mgr' = [mgr EXCEPT !.running = FALSE]
    /\ StopCallbacks(dispatch)
    /\ UNCHANGED <<reg, dispatch, blocks, rt, call>>
    /\ UNCHANGED <<bufVars, cfgVars, devVars, typVars, volVars>>

\* The engine starts the device again, at a rate and size it negotiates.
NativeDeviceStart ==
    /\ mgr.initialised
    /\ ~mgr.running
    /\ \E r \in ValidRates, z \in ValidSizes :
         /\ mgr' = [mgr EXCEPT !.running = TRUE, !.current.rate = r, !.current.size = z]
         /\ StartCallbacks(dispatch, NativeCurrentDevice(mgr'))
    /\ UNCHANGED <<reg, dispatch, blocks, rt, call>>
    /\ UNCHANGED <<bufVars, cfgVars, devVars, typVars, volVars>>

\* ffi::audio_io_device_callback::process_block: the real-time thread enters
\* the callback of a registration on its dispatch list.
ProcessBlockBegin ==
    /\ mgr.running
    /\ rt = 0
    /\ \E c \in dispatch :
         /\ blocks[c] < MaxBlocks
         /\ rt' = c
         /\ blocks' = [blocks EXCEPT ![c] = @ + 1]
    /\ UNCHANGED <<mgr, reg, dispatch, cbLife, starts, startArgs, call>>
    /\ UNCHANGED <<bufVars, cfgVars, devVars, typVars, volVars>>

ProcessBlockEnd ==
    /\ rt # 0
    /\ rt' = 0
    /\ UNCHANGED <<mgr, reg, dispatch, cbLife, starts, startArgs, blocks, call>>
    /\ UNCHANGED <<bufVars, cfgVars, devVars, typVars, volVars>>

Init == MgrIdle /\ BufIdle /\ CfgIdle /\ DevIdle /\ TypIdle /\ VolIdle

Next ==
    \/ Initialise
    \/ SetAudioDeviceSetup
    \/ AddAudioCallback
    \/ DropHandle
    \/ NativeDeviceStop
    \/ NativeDeviceStart
    \/ ProcessBlockBegin
    \/ ProcessBlockEnd

Spec == Init /\ [][Next]_vars

\* C2: once a callback's handle has been destroyed, no process_block
\* invocation for that callback begins; one already under way may complete.
C2_NoBlockAfterDrop ==
    [][\A c \in CB : reg[c] = "dropped" => ~(rt' = c /\ rt # c)]_vars

C2_Witness ==
    \E c \in CB : reg[c] = "dropped" /\ blocks[c] > 0 /\ cbLife[c] = "Stopped"
                  /\ mgr.running /\ rt = c

\* C3: a process_block is dispatched only to a callback that is Started, that
\* got about_to_start exactly once since its last stopped(), and that was
\* given the device's active channel counts, sample rate and buffer size.
C3_StartedBeforeBlock ==
    [][\A c \in CB : (rt' = c /\ rt # c) =>
          /\ cbLife[c] = "Started"
          /\ starts[c] = 1
          /\ startArgs[c] = [input_channels |-> mgr.activeIn,
                             output_channels |-> mgr.activeOut,
                             sample_rate |-> mgr.current.rate,
                             buffer_size |-> mgr.current.size]]_vars

C3_Witness ==
    \E c \in CB : /\ rt = c /\ blocks[c] = MaxBlocks /\ cbLife[c] = "Started"
                  /\ startArgs[c].input_channels # startArgs[c].output_channels
                  /\ startArgs[c].sample_rate = 48000

\* C4: a set_audio_device_setup with an invalid name, rate or size returns an
\* error to the caller and leaves the active configuration as it was.
C4_SetupErrorReturned ==
    (call.op = "set_audio_device_setup" /\ ~call.valid) =>
        /\ call.result = "err"
        /\ call.kept

(***************************************************************************)
(* AudioIODevice: the borrowed realisation, on a raw juce::AudioIODevice    *)
(* pointer, and the owned one, on cxx::UniquePtr<juce::AudioIODevice>,     *)
(* each over its own copy of the same native device, and the FFI shim      *)
(* device_open.                                                            *)
(*                                                                         *)
(* The native device opens at a rate and size it offers and otherwise      *)
(* answers with a diagnostic and stays as it was; the bridge turns a       *)
(* non-empty diagnostic into an Err.                                       *)
(***************************************************************************)
Range(q) == {q[i] : i \in DOMAIN q}

LiveDevices ==
    { [live |-> TRUE, name |-> "mock", typeName |-> "MockType", rate |-> r,
       size |-> z, rates |-> <<44100, 48000>>, sizes |-> <<2, 4>>, open |-> FALSE]
      : r \in ValidRates, z \in ValidSizes }

OpenRateArgs == {44100, 48000, 1}
OpenSizeArgs == {2, 3, 4}

Ok == [ok |-> TRUE, text |-> ""]
Err(text) == [ok |-> FALSE, text |-> text]

\* juce::open: the native open behind the bridge.
NativeOpen(d, rate, size) ==
    IF rate \in Range(d.rates) /\ size \in Range(d.sizes)
    THEN [dev |-> [d EXCEPT !.open = TRUE, !.rate = rate, !.size = size],
          result |-> Ok]
    ELSE [dev |-> d, result |-> Err("unsupported sample rate or buffer size")]

\* juce::AudioIODevice::close
NativeClose(d) == [d EXCEPT !.open = FALSE]

Answer(d, value, native) == [dev |-> d, value |-> value, native |-> native]

\* ---- impl AudioIODevice for *mut juce::AudioIODevice
PtrName(d) == IF d.live THEN Answer(d, d.name, TRUE) ELSE Answer(d, "", FALSE)

PtrTypeNameAsName(d) == IF d.live THEN Answer(d, d.name, TRUE) ELSE Answer(d, "", FALSE)
PtrTypeName(d) == IF d.live THEN Answer(d, d.typeName, TRUE) ELSE Answer(d, "", FALSE)

PtrSampleRate(d) == IF d.live THEN Answer(d, d.rate, TRUE) ELSE Answer(d, 0, FALSE)

PtrBufferSize(d) ==
    IF d.live THEN Answer(d, AsUsize(d.size), TRUE) ELSE Answer(d, 0, FALSE)

PtrAvailableSampleRates(d) ==
    IF d.live THEN Answer(d, d.rates, TRUE) ELSE Answer(d, <<>>, FALSE)

PtrAvailableBufferSizes(d) ==
    IF d.live THEN Answer(d, d.sizes, TRUE) ELSE Answer(d, <<>>, FALSE)

PtrOpenErrorDropped(d, rate, size) ==
    IF d.live
    THEN Answer(NativeOpen(d, rate, size).dev, Ok, TRUE)
    ELSE Answer(d, Ok, FALSE)
PtrOpen(d, rate, size) ==
    IF d.live
    THEN LET r == NativeOpen(d, rate, size)
         IN  IF r.result.ok THEN Answer(r.dev, Ok, TRUE)
                            ELSE Answer(r.dev, r.result, TRUE)
    ELSE Answer(d, Ok, FALSE)

PtrClose(d) ==
    IF d.live THEN Answer(NativeClose(d), "unit", TRUE) ELSE Answer(d, "unit", FALSE)

\* ---- impl AudioIODevice for cxx::UniquePtr<juce::AudioIODevice>
UniqName(d) == IF d.live THEN Answer(d, d.name, TRUE) ELSE Answer(d, "", FALSE)

UniqTypeName(d) == IF d.live THEN Answer(d, d.typeName, TRUE) ELSE Answer(d, "", FALSE)

UniqSampleRate(d) == IF d.live THEN Answer(d, d.rate, TRUE) ELSE Answer(d, 0, FALSE)

UniqBufferSize(d) ==
    IF d.live THEN Answer(d, AsUsize(d.size), TRUE) ELSE Answer(d, 0, FALSE)

UniqAvailableSampleRates(d) ==
    IF d.live THEN Answer(d, d.rates, TRUE) ELSE Answer(d, <<>>, FALSE)

UniqAvailableBufferSizes(d) ==
    IF d.live THEN Answer(d, d.sizes, TRUE) ELSE Answer(d, <<>>, FALSE)

UniqOpen(d, rate, size) ==
    IF d.live
    THEN LET r == NativeOpen(d, rate, size)
         IN  IF r.result.ok THEN Answer(r.dev, Ok, TRUE)
                            ELSE Answer(r.dev, r.result, TRUE)
    ELSE Answer(d, Ok, FALSE)

UniqClose(d) ==
    IF d.live THEN Answer(NativeClose(d), "unit", TRUE) ELSE Answer(d, "unit", FALSE)

\* One call made on both realisations: p and u are what each answered.
Called(op, p, u, arg) ==
    /\ ptrDev' = p.dev
    /\ uniqDev' = u.dev
    /\ ptrRes' = [op |-> op, value |-> p.value, native |-> p.native, arg |-> arg,
                  before |-> <<PtrSampleRate(ptrDev).value, PtrBufferSize(ptrDev).value>>]
    /\ uniqRes' = [op |-> op, value |-> u.value, native |-> u.native, arg |-> arg,
                   before |-> <<UniqSampleRate(uniqDev).value, UniqBufferSize(uniqDev).value>>]
    /\ UNCHANGED appOpen
    /\ UNCHANGED <<bufVars, cfgVars, mgrVars, typVars, volVars>>

DeviceName == Called("name", PtrName(ptrDev), UniqName(uniqDev), <<>>)

DeviceTypeName == Called("type_name", PtrTypeName(ptrDev), UniqTypeName(uniqDev), <<>>)

DeviceSampleRate ==
    Called("sample_rate", PtrSampleRate(ptrDev), UniqSampleRate(uniqDev), <<>>)

DeviceBufferSize ==
    Called("buffer_size", PtrBufferSize(ptrDev), UniqBufferSize(uniqDev), <<>>)

DeviceAvailableSampleRates ==
    Called("available_sample_rates", PtrAvailableSampleRates(ptrDev),
           UniqAvailableSampleRates(uniqDev), <<>>)

DeviceAvailableBufferSizes ==
    Called("available_buffer_sizes", PtrAvailableBufferSizes(ptrDev),
           UniqAvailableBufferSizes(uniqDev), <<>>)

DeviceOpen ==
    \E r \in OpenRateArgs, z \in OpenSizeArgs :
        Called("open", PtrOpen(ptrDev, r, z), UniqOpen(uniqDev, r, z), <<r, z>>)

DeviceClose == Called("close", PtrClose(ptrDev), UniqClose(uniqDev), <<>>)

\* What an application-supplied device's open may return: Ok, or an error
\* whose text is whatever the exception it carries says.
AppOpenResults == {Ok, Err("device busy"), Err("")}

\* ffi::audio_io_device::device_open
device_open(result) == IF result.ok THEN "" ELSE result.text

FfiDeviceOpen ==
    /\ \E res \in AppOpenResults :
         appOpen' = [outcome |-> (IF res.ok THEN "ok" ELSE "err"),
                     text |-> res.text, returned |-> device_open(res)]
    /\ UNCHANGED <<ptrDev, uniqDev, ptrRes, uniqRes>>
    /\ UNCHANGED <<bufVars, cfgVars, mgrVars, typVars, volVars>>

InitDevice ==
    /\ \E d \in LiveDevices \cup {NullDevice} : ptrDev = d /\ uniqDev = d
    /\ ptrRes = NoAnswer
    /\ uniqRes = NoAnswer
    /\ appOpen = NoOpen
    /\ BufIdle /\ CfgIdle /\ MgrIdle /\ TypIdle /\ VolIdle

NextDevice ==
    \/ DeviceName
    \/ DeviceTypeName
    \/ DeviceSampleRate
    \/ DeviceBufferSize
    \/ DeviceAvailableSampleRates
    \/ DeviceAvailableBufferSizes
    \/ DeviceOpen
    \/ DeviceClose
    \/ FfiDeviceOpen

SpecDevice == InitDevice /\ [][NextDevice]_vars

Rejected(d, arg) == arg[1] \notin Range(d.rates) \/ arg[2] \notin Range(d.sizes)

\* C5: open on a live device with a rate or size it does not offer returns an
\* error with a non-empty diagnostic, and the sample rate and buffer size the
\* device reports afterwards are those it reported before, for the borrowed
\* and for the owned device.
C5_OpenRejected ==
    /\ (ptrRes.op = "open" /\ ptrDev.live /\ Rejected(ptrDev, ptrRes.arg)) =>
          /\ ~ptrRes.value.ok
          /\ ptrRes.value.text # ""
          /\ PtrSampleRate(ptrDev).value = ptrRes.before[1]
          /\ PtrBufferSize(ptrDev).value = ptrRes.before[2]
    /\ (uniqRes.op = "open" /\ uniqDev.live /\ Rejected(uniqDev, uniqRes.arg)) =>
          /\ ~uniqRes.value.ok
          /\ uniqRes.value.text # ""
          /\ UniqSampleRate(uniqDev).value = uniqRes.before[1]
          /\ UniqBufferSize(uniqDev).value = uniqRes.before[2]

C5_Witness ==
    /\ ptrRes.op = "open" /\ ptrDev.live /\ ptrDev.open
    /\ ptrRes.arg = <<48000, 3>>
    /\ ptrRes.before = <<48000, 4>>
    /\ ~ptrRes.value.ok

DefaultAnswer(op) ==
    IF op \in {"name", "type_name"} THEN ""
    ELSE IF op \in {"sample_rate", "buffer_size"} THEN 0
    ELSE IF op \in {"available_sample_rates", "available_buffer_sizes"} THEN <<>>
    ELSE IF op = "open" THEN Ok
    ELSE "unit"

\* C8: after every sequence of calls the borrowed and the owned device have
\* answered alike and left their native devices alike; on a null device each
\* call answers the default ("", 0, the empty list) and makes no native call.
C8_SameBehaviour ==
    /\ ptrRes = uniqRes
    /\ ptrDev = uniqDev
    /\ (ptrRes.op # "none" /\ ~ptrDev.live) =>
          /\ ptrRes.value = DefaultAnswer(ptrRes.op) /\ ~ptrRes.native
          /\ uniqRes.value = DefaultAnswer(uniqRes.op) /\ ~uniqRes.native

C8_Witness ==
    /\ ptrRes.op = "type_name" /\ ptrRes.value = "MockType" /\ ptrRes.native
    /\ uniqDev.open /\ uniqDev.rate = 48000 /\ uniqDev.size = 4
    /\ ptrRes.before = <<48000, 4>>

\* C10: device_open hands the engine the empty string exactly when the
\* device's open returned Ok.
C10_EmptyIffOk ==
    appOpen.outcome # "none" => (appOpen.returned = "" <=> appOpen.outcome = "ok")

(***************************************************************************)
(* AudioIODeviceType on a raw juce::AudioIODeviceType pointer, and the FFI *)
(* shims create_device and destroy_device for an application-supplied      *)
(* device type.  The native type constructs a device when both names are   *)
(* among those it knows and returns a null device otherwise.               *)
(***************************************************************************)
TypeNameArgs == {"mock", "nope", ""}

\* juce::new_device
NativeNewDevice(inputName, outputName) ==
    IF inputName \in KnownDevices /\ outputName \in KnownDevices
    THEN "device" ELSE "null"

\* impl AudioIODeviceType for *mut juce::AudioIODeviceType :: create_device
create_device_unfiltered(t, inputName, outputName) ==
    IF t = "null" THEN "None" ELSE "Some"
create_device(t, inputName, outputName) ==
    IF t = "null" THEN "None"
    ELSE IF NativeNewDevice(inputName, outputName) = "null" THEN "None"
    ELSE "Some"

\* ffi::audio_io_device_type::create_device: the raw pointer handed to the
\* engine, 0 being null; `fresh` is the address Box::into_raw yields.
ffi_create_device(option, fresh) == IF option = "Some" THEN fresh ELSE 0

\* ffi::audio_io_device_type::destroy_device: the boxes left allocated.
ffi_destroy_device(allocated, device) ==
    IF device = 0 THEN allocated ELSE allocated \ {device}

TypeCreateDevice ==
    /\ \E i \in TypeNameArgs, o \in TypeNameArgs :
         made' = [op |-> "create_device", names |-> <<i, o>>,
                  result |-> create_device(typePtr, i, o), raw |-> 0,
                  before |-> boxes]
    /\ UNCHANGED <<typePtr, boxes>>
    /\ UNCHANGED <<bufVars, cfgVars, mgrVars, devVars, volVars>>

\* The application's device type answers None or Some(device) as it likes.
FfiCreateDevice ==
    /\ \E i \in TypeNameArgs, o \in TypeNameArgs, option \in {"None", "Some"} :
       \E fresh \in (IF option = "None" THEN {0} ELSE (1..MaxBoxes) \ boxes) :
         LET raw == ffi_create_device(option, fresh)
         IN  /\ made' = [op |-> "ffi_create_device", names |-> <<i, o>>,
                         result |-> option, raw |-> raw, before |-> boxes]
             /\ boxes' = IF raw = 0 THEN boxes ELSE boxes \cup {raw}
    /\ UNCHANGED typePtr
    /\ UNCHANGED <<bufVars, cfgVars, mgrVars, devVars, volVars>>

\* The engine gives back a pointer it was handed: null, or a live box.
FfiDestroyDevice ==
    /\ \E device \in {0} \cup boxes :
         /\ made' = [op |-> "destroy_device", names |-> <<"", "">>,
                     result |-> "unit", raw |-> device, before |-> boxes]
         /\ boxes' = ffi_destroy_device(boxes, device)
    /\ UNCHANGED typePtr
    /\ UNCHANGED <<bufVars, cfgVars, mgrVars, devVars, volVars>>

InitType ==
    /\ typePtr \in {"null", "live"}
    /\ made = NoMade
    /\ boxes = {}
    /\ BufIdle /\ CfgIdle /\ MgrIdle /\ DevIdle /\ VolIdle

NextType == TypeCreateDevice \/ FfiCreateDevice \/ FfiDestroyDevice

SpecType == InitType /\ [][NextType]_vars

\* C7: create_device answers None whenever the device type is null or the
\* engine has no device for the names; when an application's device type
\* answers None the engine is handed a null pointer; and destroy_device on a
\* null pointer frees nothing.
C7_NoDevice ==
    /\ (/\ made.op = "create_device"
        /\ \/ typePtr = "null"
           \/ made.names[1] \notin KnownDevices
           \/ made.names[2] \notin KnownDevices) => made.result = "None"
    /\ (made.op = "ffi_create_device" /\ made.result = "None") =>
          made.raw = 0 /\ boxes = made.before
    /\ (made.op = "destroy_device" /\ made.raw = 0) => boxes = made.before

C7_Witness ==
    /\ typePtr = "live"
    /\ made.op = "create_device"
    /\ made.names = <<"nope", "mock">>
    /\ made.result = "None"
    /\ boxes # {}

(***************************************************************************)
(* SystemAudioVolume.  A gain is a float, modelled in tenths, or NaN; the  *)
(* native engine keeps the gain it is given and returns it.                *)
(***************************************************************************)
Float(v) == [nan |-> FALSE, v |-> v]
NaN == [nan |-> TRUE, v |-> 0]
One == Float(10)

GainArgs == {Float(v) : v \in -2..15} \cup {NaN}

\* f32::max and f32::min: when one argument is NaN the other is returned.
FMax(a, b) == IF a.nan THEN b ELSE IF b.nan THEN a ELSE IF a.v >= b.v THEN a ELSE b
FMin(a, b) == IF a.nan THEN b ELSE IF b.nan THEN a ELSE IF a.v <= b.v THEN a ELSE b

\* SystemAudioVolume::set_gain: what the engine is given.
set_gain_unclamped(g) == g
set_gain(g) == FMin(FMax(g, Zero), One)

\* SystemAudioVolume::get_gain
get_gain(native) == native

SetGain ==
    /\ \E g \in GainArgs :
         /\ gain' = set_gain(g)
         /\ vol' = [op |-> "set_gain", set |-> TRUE, arg |-> g, got |-> Zero]
    /\ UNCHANGED muted
    /\ UNCHANGED <<bufVars, cfgVars, mgrVars, devVars, typVars>>

GetGain ==
    /\ vol' = [vol EXCEPT !.op = "get_gain", !.got = get_gain(gain)]
    /\ UNCHANGED <<gain, muted>>
    /\ UNCHANGED <<bufVars, cfgVars, mgrVars, devVars, typVars>>

\* SystemAudioVolume::mute / unmute
Mute ==
    /\ muted' = TRUE
    /\ UNCHANGED <<gain, vol>>
    /\ UNCHANGED <<bufVars, cfgVars, mgrVars, devVars, typVars>>

Unmute ==
    /\ muted' = FALSE
    /\ UNCHANGED <<gain, vol>>
    /\ UNCHANGED <<bufVars, cfgVars, mgrVars, devVars, typVars>>

InitVolume ==
    /\ gain \in {Float(v) : v \in 0..10}
    /\ muted \in BOOLEAN
    /\ vol = NoVol
    /\ BufIdle /\ CfgIdle /\ MgrIdle /\ DevIdle /\ TypIdle

NextVolume == SetGain \/ GetGain \/ Mute \/ Unmute

SpecVolume == InitVolume /\ [][NextVolume]_vars

InUnitRange(g) == ~g.nan /\ 0 <= g.v /\ g.v <= 10

\* C9 as stated: get_gain after set_gain(g) returns 1.0 for g > 1.0, 0.0 for
\* g < 0.0 and g itself otherwise, and the engine's gain stays in [0.0, 1.0].
\* Comparisons with NaN are false, so NaN falls under "otherwise".
C9_ClampedOrItself ==
    /\ InUnitRange(gain)
    /\ (vol.op = "get_gain" /\ vol.set) =>
          vol.got = (IF ~vol.arg.nan /\ vol.arg.v > 10 THEN One
                     ELSE IF ~vol.arg.nan /\ vol.arg.v < 0 THEN Zero
                     ELSE vol.arg)

\* C9 as amended: the same for every g that is a number; for g = NaN get_gain
\* returns 0.0; the engine's gain stays in [0.0, 1.0].
C9_ClampedNumbers ==
    /\ InUnitRange(gain)
    /\ (vol.op = "get_gain" /\ vol.set) =>
          vol.got = (IF vol.arg.nan THEN Zero
                     ELSE IF vol.arg.v > 10 THEN One
                     ELSE IF vol.arg.v < 0 THEN Zero
                     ELSE vol.arg)

C9_Witness ==
    /\ vol.op = "get_gain" /\ vol.set
    /\ vol.arg = Float(15)
    /\ vol.got = One

====
